---- MODULE Spec2Model ----
(***************************************************************************)
(* Model of src/commands/oas2json.ts: the oas2json command, which splits a *)
(* converted OpenAPI document into one JSON Schema file per component      *)
(* entry and per path/operation parameter bucket.                          *)
(*                                                                         *)
(* Strings are sequences of tokens.  A token is one character, except the  *)
(* literals the code's regular expression treats as a unit                 *)
(* ("#/components/<kind>/", ".json").  No token is a prefix of another, so *)
(* substring search on token sequences agrees with substring search on the *)
(* characters they stand for.                                              *)
(***************************************************************************)
EXTENDS Naturals, Sequences, FiniteSets, TLC

VARIABLES
    input,      \* the arguments of runCommand and the files it reads
    pc,         \* position inside runCommand
    run,        \* 1 or 2: which of two consecutive invocations is executing
    dirExists,  \* whether schemasPath exists
    fs,         \* files under schemasPath: path |-> content
    log,        \* messages given to the logger, in order
    exitCode,   \* status passed to exit(), or NoExit
    kws,        \* componentsKeywords
    kwi,        \* index in kws of the next keyword processComponents handles
    eni,        \* index of the next entry processSchema handles
    epi,        \* index of the next endpoint processPathSchemas handles
    opi,        \* index of the next option of that endpoint
    thrownAt,   \* the step whose exception is in flight or was handled, or NoStep
    writes,     \* paths given to fs.writeFileSync in this run, in order
    fsFirst,    \* the output tree left by the first run
    text,       \* rewriter: schemaAsString
    refs,       \* rewriter: matches still to be handled by refs.forEach
    original,   \* rewriter: schemaAsString as JSON.stringify returned it
    rpc         \* rewriter: position inside the rewriting loop

vars == <<input, pc, run, dirExists, fs, log, exitCode, kws, kwi, eni, epi,
          opi, thrownAt, writes, fsFirst, text, refs, original, rpc>>

pipelineVars == <<input, pc, run, dirExists, fs, log, exitCode, kws, kwi, eni,
                  epi, opi, thrownAt, writes, fsFirst>>

rewriterVars == <<text, refs, original, rpc>>

-----------------------------------------------------------------------------
(* Tokens *)

Quote == "QUOTE"
RefSchemas == "#/components/schemas/"
RefOther == "#/components/x-other/"
Slash == "/"
Dollar == "$"
Amp == "&"
DotJson == ".json"
Undefined == <<"undefined">>

\* The kinds COMPONENT_REF_REGEXP lists; RefSchemas stands for any of them.
RefPrefixes == {RefSchemas}

\* Tokens whose last character is "/" (String.split('/') cuts after them).
EndsWithSlash(tok) == tok \in {Slash, RefSchemas, RefOther}

-----------------------------------------------------------------------------
(* Bounds *)

MaxLen == 6
MaxEntries == 2
MaxParams == 2
MaxExtras == 2

-----------------------------------------------------------------------------
(* Sequence helpers *)

SeqsUpTo(S, n) == UNION {[1..k -> S] : k \in 0..n}

\* Index of the first occurrence of pat in s at or after i, 0 if there is none.
RECURSIVE IndexOfFrom(_, _, _)
IndexOfFrom(s, pat, i) ==
    IF i + Len(pat) - 1 > Len(s) THEN 0
    ELSE IF SubSeq(s, i, i + Len(pat) - 1) = pat THEN i
    ELSE IndexOfFrom(s, pat, i + 1)

-----------------------------------------------------------------------------
(* COMPONENT_REF_REGEXP and String.prototype.match with the g flag *)

\* Last index of the run of [^"]+ that starts at i.
RECURSIVE RunEnd(_, _)
RunEnd(s, i) ==
    IF i < Len(s) /\ s[i + 1] # Quote THEN RunEnd(s, i + 1) ELSE i

\* A match starts at i: a listed prefix followed by at least one non-quote.
MatchesAt(s, i) ==
    /\ i < Len(s)
    /\ s[i] \in RefPrefixes
    /\ s[i + 1] # Quote

RECURSIVE MatchAllFrom(_, _)
MatchAllFrom(s, i) ==
    IF i > Len(s) THEN <<>>
    ELSE IF MatchesAt(s, i)
         THEN <<SubSeq(s, i, RunEnd(s, i + 1))>>
              \o MatchAllFrom(s, RunEnd(s, i + 1) + 1)
         ELSE MatchAllFrom(s, i + 1)

\* schemaAsString.match(COMPONENT_REF_REGEXP), with null as the empty list.
MatchAll(s) == MatchAllFrom(s, 1)

-----------------------------------------------------------------------------
(* ref.split('/').slice(-1), `${refName}.json` and String.prototype.replace *)

\* The tokens after the last "/" of ref.
RECURSIVE LastSegment(_)
LastSegment(ref) ==
    IF ref = <<>> THEN <<>>
    ELSE IF EndsWithSlash(ref[Len(ref)]) THEN <<>>
    ELSE LastSegment(SubSeq(ref, 1, Len(ref) - 1)) \o <<ref[Len(ref)]>>

RefReplacement(ref) == LastSegment(ref) \o <<DotJson>>

\* GetSubstitution of String.prototype.replace for a string pattern: in the
\* replacement text "$$" stands for "$" and "$&" for the matched substring;
\* any other "$" is literal.
RECURSIVE GetSubstitution(_, _)
GetSubstitution(matched, repl) ==
    IF repl = <<>> THEN <<>>
    ELSE IF Head(repl) = Dollar /\ Len(repl) >= 2 /\ repl[2] = Dollar
         THEN <<Dollar>> \o GetSubstitution(matched, Tail(Tail(repl)))
    ELSE IF Head(repl) = Dollar /\ Len(repl) >= 2 /\ repl[2] = Amp
         THEN matched \o GetSubstitution(matched, Tail(Tail(repl)))
    ELSE <<Head(repl)>> \o GetSubstitution(matched, Tail(repl))

\* s.replace(pat, repl) with a string pattern: the first occurrence only.
ReplaceFirst(s, pat, repl) ==
    LET i == IndexOfFrom(s, pat, 1)
    IN  IF i = 0 THEN s
        ELSE SubSeq(s, 1, i - 1) \o GetSubstitution(pat, repl)
             \o SubSeq(s, i + Len(pat), Len(s))

\* One iteration of refs.forEach in processSchema.
ReplaceRef(s, ref) == ReplaceFirst(s, ref, RefReplacement(ref))

RECURSIVE ReplaceRefs(_, _)
ReplaceRefs(s, rs) ==
    IF rs = <<>> THEN s ELSE ReplaceRefs(ReplaceRef(s, Head(rs)), Tail(rs))

\* Lines 119-123 of processSchema as one function of schemaAsString.
RewriteRefs(s) == ReplaceRefs(s, MatchAll(s))

-----------------------------------------------------------------------------
(* Names, filenames and identifiers *)

Space == " "
Brace == "{"
Colon == ":"
Dash == "-"
Underscore == "_"

\* INVALID_URI_CHARS_REGEXP: of the tokens used here, only these two are
\* outside a-zA-Z0-9 and -._~:/?#[]@!$&'()*+,;=
InvalidUriChar(tok) == tok \in {Space, Brace}

\* s.replace(INVALID_URI_CHARS_REGEXP, '')
StripInvalidUri(s) == SelectSeq(s, LAMBDA tok : ~InvalidUriChar(tok))

\* filenamify(name, { replacement: '-' }): the characters reserved in file
\* names become the replacement.
Filenamify(name) ==
    [i \in 1..Len(name) |->
        IF name[i] \in {Colon, Slash, Quote} THEN Dash ELSE name[i]]

\* _trimStart(s, '-')
RECURSIVE TrimStart(_, _)
TrimStart(s, c) ==
    IF s # <<>> /\ Head(s) = c THEN TrimStart(Tail(s), c) ELSE s

\* formatFileName of utils/paths: the final formatting pass, case
\* normalisation.
FormatFileName(s) ==
    [i \in 1..Len(s) |-> IF s[i] = "A" THEN "a" ELSE s[i]]

\* filenamify throws a TypeError unless it is given a string.
GetFilenameThrows(name) == name = Undefined

GetFilename(name) == FormatFileName(TrimStart(Filenamify(name), Dash))

\* pathName.replaceAll('/', '_')
ReplaceSlashes(s) ==
    [i \in 1..Len(s) |-> IF s[i] = Slash THEN Underscore ELSE s[i]]

-----------------------------------------------------------------------------
(* adaptSchema, JSON.stringify and saveSchema *)

\* A written file: the serialized schema.  title is Undefined when
\* JSON.stringify left the property out; body is the rest of the text, the
\* string values that can hold references, each between quotes.
FileContent(title, id, tsType, body, properties, required) ==
    [title |-> title, id |-> id, tsType |-> tsType, body |-> body,
     properties |-> properties, required |-> required]

\* adaptSchema followed by JSON.stringify(value, null, 2) for an object:
\* $schema is deleted, title is the name, $id the filename without invalid
\* URI characters plus ".json", tsType is set when format includes 'date'.
\* A property whose value is undefined is not serialized.
AdaptAndStringify(name, filename, hasDate, body, properties, required) ==
    FileContent(name, StripInvalidUri(filename) \o <<DotJson>>, hasDate,
                body, properties, required)

\* saveSchema: path.join of the directory and `${filename}.json`,
\* ensureDirSync, writeFileSync (an existing file is overwritten).
DestinationPath(definitionKeyword, filename) ==
    <<definitionKeyword, filename \o <<DotJson>>>>

SaveSchema(files, definitionKeyword, filename, content) ==
    LET p == DestinationPath(definitionKeyword, filename)
    IN  [q \in DOMAIN files \cup {p} |-> IF q = p THEN content ELSE files[q]]

-----------------------------------------------------------------------------
(* buildSchemaFromParameters *)

\* properties[name] = { schema }: a repeated name keeps its first position
\* and takes the later value.
RECURSIVE PropertyNames(_)
PropertyNames(parameters) ==
    IF parameters = <<>> THEN <<>>
    ELSE LET rest == PropertyNames(SubSeq(parameters, 1, Len(parameters) - 1))
             last == parameters[Len(parameters)]
         IN  IF last.name = Undefined THEN rest
             ELSE IF \E i \in 1..Len(rest) : rest[i] = last.name THEN rest
             ELSE Append(rest, last.name)

\* The schema stored under a property name: the last parameter of that name.
RECURSIVE PropertySchema(_, _)
PropertySchema(parameters, name) ==
    IF parameters = <<>> THEN <<>>
    ELSE IF parameters[Len(parameters)].name = name
         THEN parameters[Len(parameters)].schema
         ELSE PropertySchema(SubSeq(parameters, 1, Len(parameters) - 1), name)

\* requiredList.push(name) for each named parameter with required set.
RECURSIVE RequiredList(_)
RequiredList(parameters) ==
    IF parameters = <<>> THEN <<>>
    ELSE (IF Head(parameters).name # Undefined /\ Head(parameters).required
          THEN <<Head(parameters).name>> ELSE <<>>)
         \o RequiredList(Tail(parameters))

\* The string values of the serialized properties, each between quotes.
RECURSIVE PropertiesBody(_, _)
PropertiesBody(parameters, names) ==
    IF names = <<>> THEN <<>>
    ELSE <<Quote>> \o PropertySchema(parameters, Head(names)) \o <<Quote>>
         \o PropertiesBody(parameters, Tail(names))

BuildSchemaFromParameters(parameters) ==
    [properties |-> PropertyNames(parameters),
     required |-> RequiredList(parameters),
     body |-> PropertiesBody(parameters, PropertyNames(parameters))]

\* processParameterSchema: schema.name is read from the schema that
\* buildSchemaFromParameters returned, which has no such property; the text
\* is written as JSON.stringify returned it.
ParameterSchemaName(itemSchema) == Undefined

ProcessParameterSchema(files, itemSchema, definitionKeyword, filename) ==
    SaveSchema(files, definitionKeyword, filename,
               AdaptAndStringify(ParameterSchemaName(itemSchema), filename,
                                 FALSE, itemSchema.body, itemSchema.properties,
                                 itemSchema.required))

-----------------------------------------------------------------------------
(* processSchema: one entry of one collection *)

\* Object.entries of an array pairs each element with its index.
IndexKeys == <<"0", "1", "2", "3", "4">>

EntryKey(entry, index, isArray) ==
    IF isArray THEN <<IndexKeys[index]>> ELSE entry.key

\* A name taken from the key whatever the collection is.
EntryNameFromKey(entry, index, isArray) == EntryKey(entry, index, isArray)

\* const name = isArray ? value.name : key
EntryName(entry, index, isArray) ==
    IF isArray THEN entry.name ELSE EntryKey(entry, index, isArray)

\* An entry that raises only when it is no object.
EntryThrowsUnlessObject(entry, index, isArray) == ~entry.isObject

\* getFilename throws on a name that is no string; adaptSchema throws when
\* it assigns title to a value that is no object (module code is strict).
EntryThrows(entry, index, isArray) ==
    \/ GetFilenameThrows(EntryName(entry, index, isArray))
    \/ ~entry.isObject

\* The body of the forEach callback of processSchema for an entry that does
\* not throw.
ProcessEntry(files, entry, index, isArray, definitionKeyword) ==
    LET name == EntryName(entry, index, isArray)
        filename == GetFilename(name)
    IN  SaveSchema(files, <<definitionKeyword>>, filename,
                   AdaptAndStringify(name, filename, entry.date,
                                     RewriteRefs(entry.body), <<>>, <<>>))

EntryPath(entry, index, isArray, definitionKeyword) ==
    DestinationPath(<<definitionKeyword>>,
                    GetFilename(EntryName(entry, index, isArray)))

-----------------------------------------------------------------------------
(* processPathSchemas: one endpoint *)

METHODS == {"get", "post", "put", "delete", "options", "head", "patch"}
PARAMETERS_KEYWORD == "parameters"
EXTRACTION_PARAMETERS_KEYWORDS == {"query", "path"}

\* A reduce that files each parameter under the bucket of its own in.
BucketQueryByOwnName(parameters) ==
    SelectSeq(parameters, LAMBDA q : q.in = "query")

\* The reduce of lines 178-195: parameters with in = 'path' are pushed onto
\* acc.query and parameters with in = 'query' onto acc.path.
BucketQuery(parameters) == SelectSeq(parameters, LAMBDA q : q.in = "path")
BucketPath(parameters) == SelectSeq(parameters, LAMBDA q : q.in = "query")

\* Object.entries(schemas): the keys in the order the accumulator lists them.
BucketKeys == <<"query", "path">>

Bucket(parameters, key) ==
    IF key = "query" THEN BucketQuery(parameters) ELSE BucketPath(parameters)

IsValidMethod(option) == option.key \in METHODS /\ option.hasParameters
IsValidPathParameters(option) == option.key = PARAMETERS_KEYWORD
IsProcessed(option) == IsValidMethod(option) \/ IsValidPathParameters(option)

\* const pathName = endpoint.replace(INVALID_URI_CHARS_REGEXP, '')
PathName(endpoint) == StripInvalidUri(endpoint.name)

\* path.join(pathFolder, optionKey) for an operation, pathFolder otherwise.
Folder(endpoint, option) ==
    IF IsValidMethod(option)
    THEN PathName(endpoint) \o <<Slash, option.key>>
    ELSE PathName(endpoint)

ParametersFilename(endpoint, key) ==
    GetFilename(ReplaceSlashes(PathName(endpoint))
                \o <<Underscore, key, Underscore, PARAMETERS_KEYWORD>>)

\* currentSchema.reduce throws when currentSchema is no array.
OptionThrows(option) == IsProcessed(option) /\ ~option.isList

\* A state threaded through the loops: the files, the paths written so far
\* and whether an exception ended the loop.
Threaded(files, written, threw) ==
    [files |-> files, written |-> written, threw |-> threw]

\* Object.entries(schemas).forEach of lines 197-207.
RECURSIVE ProcessBuckets(_, _, _, _)
ProcessBuckets(st, endpoint, option, keys) ==
    IF keys = <<>> THEN st
    ELSE LET key == Head(keys)
             bucket == Bucket(option.parameters, key)
             filename == ParametersFilename(endpoint, key)
             folder == Folder(endpoint, option)
             next ==
                 IF key \in EXTRACTION_PARAMETERS_KEYWORDS /\ Len(bucket) > 0
                 THEN Threaded(
                          ProcessParameterSchema(
                              st.files, BuildSchemaFromParameters(bucket),
                              folder, filename),
                          Append(st.written, DestinationPath(folder, filename)),
                          FALSE)
                 ELSE st
         IN  ProcessBuckets(next, endpoint, option, Tail(keys))

\* The callback of Object.entries(endpointOptions).forEach for an option
\* that does not throw.
ProcessOptionOf(files, written, endpoint, option) ==
    IF IsProcessed(option)
    THEN ProcessBuckets(Threaded(files, written, FALSE), endpoint, option,
                        BucketKeys)
    ELSE Threaded(files, written, FALSE)

-----------------------------------------------------------------------------
(* The inputs of runCommand *)

KwSchemas == "components.schemas"
KwExamples == "components.examples"
KwHeaders == "components.headers"

Entry(key, name, isObject, date, body) ==
    [key |-> key, name |-> name, isObject |-> isObject, date |-> date,
     body |-> body]

\* Entries of a component collection: key is the object key (unused when the
\* collection is an array), name the entry's own name property.
EntryPool ==
    { Entry(<<"A">>, <<"b", Space, "A">>, TRUE, FALSE,
            <<Quote, RefSchemas, "b", Quote, RefSchemas, "b", "b", Quote>>),
      Entry(<<Colon, "A", Space, "b">>, <<"A">>, TRUE, TRUE,
            <<Quote, RefOther, "b", Quote>>),
      Entry(<<"b">>, Undefined, TRUE, FALSE, <<Quote, RefSchemas, "A", Quote>>),
      Entry(<<"c">>, <<"c">>, FALSE, FALSE, <<>>) }

\* Sequences of at most n distinct members of S.
DistinctSeqs(S, n) ==
    {q \in SeqsUpTo(S, n) : \A i, j \in 1..Len(q) : q[i] = q[j] => i = j}

Collection(isArray, items) ==
    [present |-> TRUE, isArray |-> isArray, items |-> items]

AbsentCollection == [present |-> FALSE, isArray |-> FALSE, items |-> <<>>]

CollectionPool ==
    {AbsentCollection}
    \cup {Collection(a, q) : a \in BOOLEAN, q \in DistinctSeqs(EntryPool, MaxEntries)}

Parameter(name, in, required, schema) ==
    [name |-> name, in |-> in, required |-> required, schema |-> schema]

ParameterPool ==
    { Parameter(<<"A">>, "path", TRUE, <<>>),
      Parameter(<<"b">>, "path", TRUE, <<RefSchemas, "b">>),
      Parameter(<<"b">>, "query", FALSE, <<RefSchemas, "A">>),
      Parameter(<<"c">>, "query", TRUE, <<>>),
      Parameter(<<"c">>, "header", TRUE, <<>>),
      Parameter(Undefined, "path", TRUE, <<>>) }

Option(key, hasParameters, isList, parameters) ==
    [key |-> key, hasParameters |-> hasParameters, isList |-> isList,
     parameters |-> parameters]

Endpoint(name, options) == [name |-> name, options |-> options]

Paths(endpoints) == [present |-> TRUE, endpoints |-> endpoints]

AbsentPaths == [present |-> FALSE, endpoints |-> <<>>]

\* The worked example: /A/{b} with a get operation and path-level parameters.
FixedEndpoint ==
    Endpoint(<<Slash, "A", Slash, Brace, "b">>,
             << Option("summary", FALSE, FALSE, <<>>),
                Option("get", TRUE, TRUE,
                       << Parameter(<<"b">>, "path", TRUE, <<>>),
                          Parameter(<<"c">>, "query", FALSE, <<>>) >>),
                Option(PARAMETERS_KEYWORD, FALSE, TRUE,
                       << Parameter(<<"A">>, "query", TRUE, <<>>) >>) >>)

FixedPaths == Paths(<<FixedEndpoint>>)

FixedSchemas ==
    Collection(FALSE, << Entry(<<"A">>, Undefined, TRUE, FALSE,
                               <<Quote, RefSchemas, "b", Quote>>),
                         Entry(<<"b">>, Undefined, TRUE, TRUE, <<>>) >>)

EmptyFs == [q \in {} |-> FileContent(<<>>, <<>>, FALSE, <<>>, <<>>, <<>>)]

StaleContent == FileContent(<<"old">>, <<"old">>, FALSE, <<>>, <<>>, <<>>)

\* What schemasPath holds before the first run: nothing, a file no run
\* produces, or a file at a path the run writes to.
StalePool ==
    { EmptyFs,
      [q \in {<<<<KwSchemas>>, <<"old", DotJson>>>>} |-> StaleContent],
      [q \in {<<<<KwSchemas>>, <<"a", DotJson>>>>} |-> StaleContent] }

\* propertiesToExport?.split(','): absent, or the comma-separated items.
PropertiesPool ==
    {Undefined}
    \cup (SeqsUpTo({KwExamples, KwSchemas, KwHeaders}, MaxExtras) \ {<<>>})

Input(readable, parses, convRaises, properties, schemas, examples, paths, stale) ==
    [readable |-> readable, parses |-> parses, convRaises |-> convRaises,
     properties |-> properties, schemas |-> schemas, examples |-> examples,
     paths |-> paths, stale |-> stale]

\* Documents that vary the extra keywords and one component collection.
ComponentInputs ==
    { Input(TRUE, TRUE, FALSE, p, FixedSchemas, c, FixedPaths, EmptyFs) :
        p \in PropertiesPool, c \in CollectionPool }

\* Documents that vary one endpoint's option and its parameters list.
PathInputs ==
    { Input(TRUE, TRUE, FALSE, Undefined, FixedSchemas, AbsentCollection,
            Paths(<<Endpoint(n, <<Option(o[1], o[2], o[3], q)>>), FixedEndpoint>>),
            EmptyFs) :
        n \in {<<Slash, "A">>, <<Slash, "A", Slash, Brace, "b">>},
        o \in { <<"get", TRUE, TRUE>>, <<"get", FALSE, TRUE>>,
                <<"post", TRUE, FALSE>>, <<"trace", TRUE, TRUE>>,
                <<PARAMETERS_KEYWORD, FALSE, TRUE>>,
                <<PARAMETERS_KEYWORD, FALSE, FALSE>> },
        q \in SeqsUpTo(ParameterPool, MaxParams) }

\* Runs that fail while reading, parsing or converting, over output
\* directories with and without earlier content.
FailureInputs ==
    { Input(r, y, v, p, FixedSchemas, c, t, st) :
        r \in BOOLEAN, y \in BOOLEAN, v \in BOOLEAN,
        p \in {Undefined, <<KwExamples>>},
        c \in {AbsentCollection, Collection(TRUE, <<>>)},
        t \in {AbsentPaths, FixedPaths}, st \in StalePool }

Inputs == ComponentInputs \cup PathInputs \cup FailureInputs

\* _get(generatedSchema, key) and _get(parsedOpenAPIContent, key)
Get(doc, key) ==
    IF key = KwSchemas THEN doc.schemas
    ELSE IF key = KwExamples THEN doc.examples
    ELSE AbsentCollection

\* [...new Set(list)]: the first occurrence of each element, in order.
RECURSIVE SetOrder(_)
SetOrder(list) ==
    IF list = <<>> THEN <<>>
    ELSE LET rest == SetOrder(SubSeq(list, 1, Len(list) - 1))
             last == list[Len(list)]
         IN  IF \E i \in 1..Len(rest) : rest[i] = last THEN rest
             ELSE Append(rest, last)

\* A keyword list that puts components.schemas first.
ComponentsKeywordsSchemasFirst(properties) ==
    SetOrder(<<KwSchemas>>
             \o (IF properties = Undefined THEN <<>> ELSE properties))

\* Lines 233-238.
ComponentsKeywords(properties) ==
    SetOrder((IF properties = Undefined THEN <<>> ELSE properties)
             \o <<KwSchemas>>)

-----------------------------------------------------------------------------
(* runCommand *)

NoExit == <<>>
NoStep == "none"

\* The statements inside the try block of lines 240-255.
TryBlockSteps == {"convert", "components", "paths"}

Finished == pc \in {"returned", "exited", "threw"}

Init ==
    /\ input \in Inputs
    /\ pc = "start"
    /\ run = 1
    /\ dirExists = (input.stale # EmptyFs)
    /\ fs = input.stale
    /\ log = <<>>
    /\ exitCode = NoExit
    /\ kws = <<>>
    /\ kwi = 1
    /\ eni = 1
    /\ epi = 1
    /\ opi = 1
    /\ thrownAt = NoStep
    /\ writes = <<>>
    /\ fsFirst = EmptyFs
    /\ text = <<>>
    /\ refs = <<>>
    /\ original = <<>>
    /\ rpc = "idle"

\* An exception leaves the current statement.
Throw(step) ==
    /\ pc' = "raised"
    /\ thrownAt' = step

\* A removal that leaves the files of the directory in place.
RemoveSyncKeepsFiles ==
    /\ pc = "start"
    /\ pc' = "ensure"
    /\ UNCHANGED <<input, run, dirExists, fs, log, exitCode, kws, kwi, eni, epi,
                   opi, thrownAt, writes, fsFirst, rewriterVars>>

\* fs.removeSync(schemasPath)
RemoveSync ==
    /\ pc = "start"
    /\ pc' = "ensure"
    /\ dirExists' = FALSE
    /\ fs' = EmptyFs
    /\ UNCHANGED <<input, run, log, exitCode, kws, kwi, eni, epi, opi, thrownAt,
                   writes, fsFirst, rewriterVars>>

\* fs.ensureDirSync(schemasPath)
EnsureDirSync ==
    /\ pc = "ensure"
    /\ pc' = "read"
    /\ dirExists' = TRUE
    /\ UNCHANGED <<input, run, fs, log, exitCode, kws, kwi, eni, epi, opi, thrownAt,
                   writes, fsFirst, rewriterVars>>

\* fs.readFileSync succeeds.
ReadFile ==
    /\ pc = "read"
    /\ input.readable
    /\ pc' = "parse"
    /\ UNCHANGED <<input, run, dirExists, fs, log, exitCode, kws, kwi, eni, epi, opi,
                   thrownAt, writes, fsFirst, rewriterVars>>

\* A failed read that logs the error and goes on without exit(1).
ReadFileFailsWithoutExit ==
    /\ pc = "read"
    /\ ~input.readable
    /\ log' = Append(log, "error")
    /\ pc' = "parse"
    /\ UNCHANGED <<input, run, dirExists, fs, exitCode, kws, kwi, eni, epi, opi,
                   thrownAt, writes, fsFirst, rewriterVars>>

\* fs.readFileSync throws: logger.error and exit(1).
ReadFileFails ==
    /\ pc = "read"
    /\ ~input.readable
    /\ log' = Append(log, "error")
    /\ exitCode' = <<1>>
    /\ pc' = "exited"
    /\ UNCHANGED <<input, run, dirExists, fs, kws, kwi, eni, epi, opi, thrownAt,
                   writes, fsFirst, rewriterVars>>

\* YAML.parse(openAPIContent), outside the try block.
ParseYaml ==
    /\ pc = "parse"
    /\ IF input.parses
       THEN pc' = "keywords" /\ UNCHANGED thrownAt
       ELSE Throw("parse")
    /\ UNCHANGED <<input, run, dirExists, fs, log, exitCode, kws, kwi, eni, epi, opi,
                   writes, fsFirst, rewriterVars>>

\* const componentsKeywords = [...new Set([...])]
BuildKeywords ==
    /\ pc = "keywords"
    /\ kws' = ComponentsKeywords(input.properties)
    /\ pc' = "convert"
    /\ UNCHANGED <<input, run, dirExists, fs, log, exitCode, kwi, eni, epi, opi,
                   thrownAt, writes, fsFirst, rewriterVars>>

\* fromSchema(parsedOpenAPIContent, { definitionKeywords }): the converter
\* returns the tree or raises on a document it cannot lower.
FromSchema ==
    /\ pc = "convert"
    /\ IF input.convRaises
       THEN Throw("convert") /\ UNCHANGED <<kwi, eni>>
       ELSE pc' = "components" /\ kwi' = 1 /\ eni' = 1 /\ UNCHANGED thrownAt
    /\ UNCHANGED <<input, run, dirExists, fs, log, exitCode, kws, epi, opi, writes,
                   fsFirst, rewriterVars>>

\* processSchema: Object.entries(schema) of a collection the tree lacks.
ProcessSchemaAbsent ==
    /\ pc = "components"
    /\ kwi <= Len(kws)
    /\ ~Get(input, kws[kwi]).present
    /\ Throw("components")
    /\ UNCHANGED <<input, run, dirExists, fs, log, exitCode, kws, kwi, eni, epi, opi,
                   writes, fsFirst, rewriterVars>>

\* processSchema: the forEach callback for the next entry.
ProcessSchemaEntry ==
    /\ pc = "components"
    /\ kwi <= Len(kws)
    /\ Get(input, kws[kwi]).present
    /\ eni <= Len(Get(input, kws[kwi]).items)
    /\ LET coll == Get(input, kws[kwi])
           entry == coll.items[eni]
       IN  IF EntryThrows(entry, eni, coll.isArray)
           THEN Throw("components") /\ UNCHANGED <<fs, writes, eni>>
           ELSE /\ fs' = ProcessEntry(fs, entry, eni, coll.isArray, kws[kwi])
                /\ writes' = Append(writes,
                                    EntryPath(entry, eni, coll.isArray,
                                              kws[kwi]))
                /\ eni' = eni + 1
                /\ UNCHANGED <<pc, thrownAt>>
    /\ UNCHANGED <<input, run, dirExists, log, exitCode, kws, kwi, epi, opi, fsFirst,
                   rewriterVars>>

\* processSchema returns; componentsKeywords.forEach goes to the next key.
ProcessSchemaEnd ==
    /\ pc = "components"
    /\ kwi <= Len(kws)
    /\ Get(input, kws[kwi]).present
    /\ eni > Len(Get(input, kws[kwi]).items)
    /\ kwi' = kwi + 1
    /\ eni' = 1
    /\ UNCHANGED <<input, pc, run, dirExists, fs, log, exitCode, kws, epi, opi,
                   thrownAt, writes, fsFirst, rewriterVars>>

\* processComponents returns; processPathSchemas is called.
ProcessComponentsEnd ==
    /\ pc = "components"
    /\ kwi > Len(kws)
    /\ pc' = "paths"
    /\ epi' = 1
    /\ opi' = 1
    /\ UNCHANGED <<input, run, dirExists, fs, log, exitCode, kws, kwi, eni,
                   thrownAt, writes, fsFirst, rewriterVars>>

\* processPathSchemas: Object.entries(pathSchema) of a tree without paths.
ProcessPathsAbsent ==
    /\ pc = "paths"
    /\ ~input.paths.present
    /\ Throw("paths")
    /\ UNCHANGED <<input, run, dirExists, fs, log, exitCode, kws, kwi, eni, epi, opi,
                   writes, fsFirst, rewriterVars>>

\* processPathSchemas: the inner forEach callback for the next option of
\* the current endpoint.
ProcessOption ==
    /\ pc = "paths"
    /\ input.paths.present
    /\ epi <= Len(input.paths.endpoints)
    /\ opi <= Len(input.paths.endpoints[epi].options)
    /\ LET endpoint == input.paths.endpoints[epi]
           option == endpoint.options[opi]
           st == ProcessOptionOf(fs, writes, endpoint, option)
       IN  IF OptionThrows(option)
           THEN Throw("paths") /\ UNCHANGED <<fs, writes, opi>>
           ELSE /\ fs' = st.files
                /\ writes' = st.written
                /\ opi' = opi + 1
                /\ UNCHANGED <<pc, thrownAt>>
    /\ UNCHANGED <<input, run, dirExists, log, exitCode, kws, kwi, eni, epi,
                   fsFirst, rewriterVars>>

\* The options of the endpoint are done; the outer forEach goes on.
ProcessEndpointEnd ==
    /\ pc = "paths"
    /\ input.paths.present
    /\ epi <= Len(input.paths.endpoints)
    /\ opi > Len(input.paths.endpoints[epi].options)
    /\ epi' = epi + 1
    /\ opi' = 1
    /\ UNCHANGED <<input, pc, run, dirExists, fs, log, exitCode, kws, kwi, eni,
                   thrownAt, writes, fsFirst, rewriterVars>>

\* processPathSchemas returns; logger.info and the end of runCommand.
ProcessPathsEnd ==
    /\ pc = "paths"
    /\ input.paths.present
    /\ epi > Len(input.paths.endpoints)
    /\ log' = Append(log, "info")
    /\ pc' = "returned"
    /\ UNCHANGED <<input, run, dirExists, fs, exitCode, kws, kwi, eni, epi, opi,
                   thrownAt, writes, fsFirst, rewriterVars>>

\* A catch clause that throws the exception again.
CatchRethrows ==
    /\ pc = "raised"
    /\ pc' = "threw"
    /\ UNCHANGED <<input, run, dirExists, fs, log, exitCode, kws, kwi, eni, epi,
                   opi, thrownAt, writes, fsFirst, rewriterVars>>

\* The catch clause of lines 252-255 handles what the try block threw; any
\* other exception leaves runCommand.
Catch ==
    /\ pc = "raised"
    /\ IF thrownAt \in TryBlockSteps
       THEN log' = Append(log, "warn") /\ pc' = "returned"
       ELSE pc' = "threw" /\ UNCHANGED log
    /\ UNCHANGED <<input, run, dirExists, fs, exitCode, kws, kwi, eni, epi, opi,
                   thrownAt, writes, fsFirst, rewriterVars>>

\* The command is invoked again with the same arguments on the tree the
\* first invocation left.
RunAgain ==
    /\ run = 1
    /\ Finished
    /\ run' = 2
    /\ fsFirst' = fs
    /\ pc' = "start"
    /\ log' = <<>>
    /\ exitCode' = NoExit
    /\ kws' = <<>>
    /\ kwi' = 1
    /\ eni' = 1
    /\ epi' = 1
    /\ opi' = 1
    /\ thrownAt' = NoStep
    /\ writes' = <<>>
    /\ UNCHANGED <<input, dirExists, fs, rewriterVars>>

Next ==
    \/ RemoveSync
    \/ EnsureDirSync
    \/ ReadFile
    \/ ReadFileFails
    \/ ParseYaml
    \/ BuildKeywords
    \/ FromSchema
    \/ ProcessSchemaAbsent
    \/ ProcessSchemaEntry
    \/ ProcessSchemaEnd
    \/ ProcessComponentsEnd
    \/ ProcessPathsAbsent
    \/ ProcessOption
    \/ ProcessEndpointEnd
    \/ ProcessPathsEnd
    \/ Catch
    \/ RunAgain

Spec == Init /\ [][Next]_vars

-----------------------------------------------------------------------------
(* Lines 118-123 of processSchema, one statement at a time, on every       *)
(* serialized text of at most MaxLen tokens                                *)

Alphabet == {Quote, RefSchemas, RefOther, Slash, "a", Dollar, Amp}

InitRewrite ==
    /\ input = Input(TRUE, TRUE, FALSE, Undefined, FixedSchemas,
                     AbsentCollection, FixedPaths, EmptyFs)
    /\ pc = "components"
    /\ run = 1
    /\ dirExists = TRUE
    /\ fs = EmptyFs
    /\ log = <<>>
    /\ exitCode = NoExit
    /\ kws = <<KwSchemas>>
    /\ kwi = 1
    /\ eni = 1
    /\ epi = 1
    /\ opi = 1
    /\ thrownAt = NoStep
    /\ writes = <<>>
    /\ fsFirst = EmptyFs
    /\ original \in SeqsUpTo(Alphabet, MaxLen)
    /\ text = original
    /\ refs = <<>>
    /\ rpc = "stringified"

\* const refs = schemaAsString.match(COMPONENT_REF_REGEXP)
MatchRefs ==
    /\ rpc = "stringified"
    /\ refs' = MatchAll(text)
    /\ rpc' = "replacing"
    /\ UNCHANGED <<pipelineVars, text, original>>

\* One call of the refs?.forEach callback.
ReplaceNextRef ==
    /\ rpc = "replacing"
    /\ refs # <<>>
    /\ text' = ReplaceRef(text, Head(refs))
    /\ refs' = Tail(refs)
    /\ UNCHANGED <<pipelineVars, original, rpc>>

\* The loop is over; schemaAsString is what saveSchema is given.
RefsDone ==
    /\ rpc = "replacing"
    /\ refs = <<>>
    /\ rpc' = "saved"
    /\ UNCHANGED <<pipelineVars, text, refs, original>>

NextRewrite == MatchRefs \/ ReplaceNextRef \/ RefsDone

SpecRewrite == InitRewrite /\ [][NextRewrite]_vars

-----------------------------------------------------------------------------
(* Claims about the reference rewriter *)

\* What the rewriting is to produce: in one pass from left to right, every
\* match of the regular expression becomes its last path segment followed
\* by ".json", and every other token is copied.
RECURSIVE ExpectedRewriteFrom(_, _)
ExpectedRewriteFrom(s, i) ==
    IF i > Len(s) THEN <<>>
    ELSE IF MatchesAt(s, i)
         THEN LastSegment(SubSeq(s, i, RunEnd(s, i + 1))) \o <<DotJson>>
              \o ExpectedRewriteFrom(s, RunEnd(s, i + 1) + 1)
         ELSE <<s[i]>> \o ExpectedRewriteFrom(s, i + 1)

ExpectedRewrite(s) == ExpectedRewriteFrom(s, 1)

\* C3: when the loop of processSchema is over, each occurrence of a
\* reference of a listed kind has become <last segment>.json, repeated and
\* prefix-related references included, and nothing else has changed.
C3_EveryOccurrenceRewritten ==
    rpc = "saved" => text = ExpectedRewrite(original)

-----------------------------------------------------------------------------
(* Claims about runCommand *)

Range(q) == {q[i] : i \in 1..Len(q)}

HasSuffix(q, suffix) ==
    /\ Len(q) >= Len(suffix)
    /\ SubSeq(q, Len(q) - Len(suffix) + 1, Len(q)) = suffix

\* The steps the claims call conversion, component extraction and path
\* extraction.
ExtractionSteps == {"convert", "components", "paths"}

\* The paths this step gave to writeFileSync.
NewWrites == {writes'[i] : i \in (Len(writes) + 1)..Len(writes')}

\* C1: when a run has ended, every file under the output directory has a
\* title and a $id in its serialized JSON.
C1_EveryFileHasTitleAndId ==
    Finished =>
        \A p \in DOMAIN fs : fs[p].title # Undefined /\ fs[p].id # Undefined

\* C2: when a run has ended, no file under the output directory holds a
\* reference of the form #/components/<kind>/<name> with a listed kind.
C2_NoComponentRefLeft ==
    Finished => \A p \in DOMAIN fs : MatchAll(fs[p].body) = <<>>

\* C4: an exception of conversion, component extraction or path extraction
\* writes nothing, is answered by the warning alone and a normal return with
\* no exit status, and the files on disk stay as they were from the failing
\* step on.
C4_ErrorStopsExtraction ==
    [][ /\ (pc' = "raised" /\ thrownAt' \in ExtractionSteps)
            => (fs' = fs /\ writes' = writes)
        /\ (pc = "raised" /\ thrownAt \in ExtractionSteps)
            => /\ pc' = "returned"
               /\ log' = <<"warn">>
               /\ exitCode' = NoExit
               /\ fs' = fs
               /\ writes' = writes
        /\ (pc = "returned" /\ thrownAt \in ExtractionSteps /\ run' = run)
            => (fs' = fs /\ log' = log)
        /\ (pc = "returned" /\ thrownAt \in ExtractionSteps /\ run' # run)
            => fsFirst' = fs
      ]_vars

\* A run that failed in component extraction after it had written files.
C4_Witness ==
    /\ pc = "returned"
    /\ thrownAt = "components"
    /\ log = <<"warn">>
    /\ writes # <<>>
    /\ Range(writes) \subseteq DOMAIN fs

\* C5: the read is attempted on an output directory that was removed and
\* recreated; when it fails the run logs the error, exits with status 1 and
\* leaves the directory existing and empty, and no later step has run.
C5_UnreadableInput ==
    /\ pc = "read" => (dirExists /\ fs = EmptyFs)
    /\ ~input.readable => pc \in {"start", "ensure", "read", "exited"}
    /\ pc = "exited"
        => /\ ~input.readable
           /\ log = <<"error">>
           /\ exitCode = <<1>>
           /\ dirExists
           /\ fs = EmptyFs
           /\ kws = <<>>
           /\ writes = <<>>
           /\ thrownAt = NoStep

\* The read failed over a directory that held a file before the run.
C5_Witness ==
    /\ pc = "exited"
    /\ run = 1
    /\ input.stale # EmptyFs
    /\ fs = EmptyFs

QuerySuffix == <<Underscore, "query", Underscore, PARAMETERS_KEYWORD, DotJson>>
PathSuffix == <<Underscore, "path", Underscore, PARAMETERS_KEYWORD, DotJson>>

\* The names of the parameters of list q whose in is kind and that satisfy
\* the test, in list order.
RECURSIVE NamesWhere(_, _, _)
NamesWhere(q, kind, onlyRequired) ==
    IF q = <<>> THEN <<>>
    ELSE (IF /\ Head(q).in = kind
             /\ Head(q).name # Undefined
             /\ (onlyRequired => Head(q).required)
          THEN <<Head(q).name>> ELSE <<>>)
         \o NamesWhere(Tail(q), kind, onlyRequired)

\* What C6 says of the file with the given suffix, fed by the parameters
\* whose in is kind: it is written exactly when the list has a parameter of
\* that kind, in the folder of the option, and then its properties are the
\* named parameters of that kind and its required list their required names
\* in list order.
BucketFileAsClaimed(endpoint, option, suffix, kind) ==
    LET named == NamesWhere(option.parameters, kind, FALSE)
        hits == {p \in NewWrites : HasSuffix(p[2], suffix)}
    IN  /\ (\E i \in 1..Len(option.parameters) : option.parameters[i].in = kind)
            <=> hits # {}
        /\ \A p \in hits :
            /\ p[1] = Folder(endpoint, option)
            /\ Range(fs'[p].properties) = Range(named)
            /\ fs'[p].required = NamesWhere(option.parameters, kind, TRUE)

\* C6: each parameters list that processPathSchemas handles puts its named
\* in = "path" parameters into the file with suffix _query_parameters and its
\* named in = "query" parameters into the file with suffix _path_parameters,
\* each file's required list being the required names of its bucket in list
\* order; a parameter with another in reaches no file and an empty bucket
\* writes no file.
C6_BucketsAsWritten ==
    [][ (pc = "paths" /\ opi' = opi + 1)
        => LET endpoint == input.paths.endpoints[epi]
               option == endpoint.options[opi]
           IN  IF IsValidMethod(option) \/ option.key = PARAMETERS_KEYWORD
               THEN /\ BucketFileAsClaimed(endpoint, option, QuerySuffix, "path")
                    /\ BucketFileAsClaimed(endpoint, option, PathSuffix, "query")
                    /\ \A p \in NewWrites :
                        HasSuffix(p[2], QuerySuffix) \/ HasSuffix(p[2], PathSuffix)
               ELSE NewWrites = {}
      ]_vars

\* Both parameter files of one list are on disk, one with a required name.
C6_Witness ==
    /\ pc = "paths"
    /\ \E p, r \in DOMAIN fs :
        /\ p[1] = r[1]
        /\ HasSuffix(p[2], QuerySuffix)
        /\ HasSuffix(r[2], PathSuffix)
        /\ fs[p].required # <<>>
        /\ fs[r].properties # <<>>
        /\ Len(fs[p].properties) = 2

\* C7: the file of a component entry is written into the directory of its
\* keyword under the filename derived from the entry's name property when
\* the collection is an array and from its key otherwise, with title that
\* name and $id the filename without invalid URI characters plus ".json".
C7_NamedFromNameOrKey ==
    [][ (pc = "components" /\ eni' = eni + 1)
        => LET coll == Get(input, kws[kwi])
               entry == coll.items[eni]
               resolved == IF coll.isArray THEN entry.name ELSE entry.key
               p == <<<<kws[kwi]>>, GetFilename(resolved) \o <<DotJson>>>>
           IN  /\ resolved # Undefined
               /\ NewWrites = {p}
               /\ p \in DOMAIN fs'
               /\ fs'[p].title = resolved
               /\ fs'[p].id = StripInvalidUri(GetFilename(resolved)) \o <<DotJson>>
      ]_vars

\* A file of an array-valued collection whose title, filename and $id all
\* differ.
C7_Witness ==
    /\ pc = "components"
    /\ kwi <= Len(kws)
    /\ Get(input, kws[kwi]).isArray
    /\ \E p \in DOMAIN fs :
        /\ p[1] = <<kws[kwi]>>
        /\ fs[p].title = <<"b", Space, "A">>
        /\ p[2] = <<"b", Space, "a", DotJson>>
        /\ fs[p].id = <<"b", "a", DotJson>>

\* The next entry of processSchema is an object of an array-valued
\* collection that has no name property.
AtNamelessArrayEntry ==
    /\ kwi <= Len(kws)
    /\ Get(input, kws[kwi]).present
    /\ Get(input, kws[kwi]).isArray
    /\ eni <= Len(Get(input, kws[kwi]).items)
    /\ Get(input, kws[kwi]).items[eni].isObject
    /\ Get(input, kws[kwi]).items[eni].name = Undefined

C9_Idempotent ==
    /\ (run = 2 /\ Finished) => (fs = fsFirst /\ dirExists)
    /\ Finished => DOMAIN fs \subseteq Range(writes)

\* Two runs ended with files on disk over a directory that held another
\* file before the first.
C9_Witness ==
    /\ run = 2
    /\ Finished
    /\ fs # EmptyFs
    /\ input.stale # EmptyFs
    /\ \E p \in DOMAIN input.stale : p \notin DOMAIN fs

\* The extra keywords as the claim lists them: first occurrences in the
\* order given, then components.schemas unless it is among them.
RECURSIVE FirstOccurrences(_, _)
FirstOccurrences(q, seen) ==
    IF q = <<>> THEN <<>>
    ELSE IF Head(q) \in seen THEN FirstOccurrences(Tail(q), seen)
    ELSE <<Head(q)>> \o FirstOccurrences(Tail(q), seen \cup {Head(q)})

ExpectedKeywords(properties) ==
    LET extras == IF properties = Undefined THEN <<>> ELSE properties
    IN  FirstOccurrences(extras, {})
        \o (IF KwSchemas \in Range(extras) THEN <<>> ELSE <<KwSchemas>>)

\* The place of a written path in the order of processing: the index of its
\* keyword, or past all keywords for a parameter file.
OrderOf(p) ==
    IF \E i \in 1..Len(kws) : p[1] = <<kws[i]>>
    THEN CHOOSE i \in 1..Len(kws) : p[1] = <<kws[i]>>
    ELSE Len(kws) + 1

\* C10: the keyword list is the extra keywords (first occurrences, in
\* order) then components.schemas unless already listed; files are written
\* keyword by keyword in that order and parameter files last; a listed
\* keyword whose collection the document lacks leaves no file of a later
\* keyword or of a path, and the run ends with the warning alone.
C10_KeywordOrder ==
    /\ pc \in {"convert", "components", "paths", "returned"}
        => kws = ExpectedKeywords(input.properties)
    /\ \A i, j \in 1..Len(writes) :
        i < j => OrderOf(writes[i]) <= OrderOf(writes[j])
    /\ \A i \in 1..Len(kws) :
        ~Get(input, kws[i]).present
            => /\ \A k \in 1..Len(writes) : OrderOf(writes[k]) < i
               /\ pc = "returned" => log = <<"warn">>
               /\ pc = "paths" => FALSE

\* A run ended at an absent second keyword after the first had its files,
\* with components.schemas still to come.
C10_Witness ==
    /\ pc = "returned"
    /\ Len(kws) = 3
    /\ kwi = 2
    /\ ~Get(input, kws[2]).present
    /\ kws[3] = KwSchemas
    /\ writes # <<>>
    /\ log = <<"warn">>

====
